---- MODULE Spec2Model ----
(***************************************************************************)
(* Verification model of the oreacto hooks.                                *)
(*                                                                         *)
(*   useAsync    (src/src/hooks/useAsync.ts)  : SpecAsync, SpecAsyncSolo   *)
(*   useAIStream (src/unnamed/part_011)       : SpecStream                 *)
(*                                                                         *)
(* JavaScript runs these hooks on one thread: every action below is the    *)
(* code that runs between two suspension points (an await, a timer, a      *)
(* call by the component).  React state is the value the setters leave     *)
(* behind; refs are plain variables.                                       *)
(***************************************************************************)
EXTENDS Integers, Sequences, FiniteSets, TLC

\* ------------------------------------------------------------------ bounds
MaxInv == 3          \* invocations of the wrapped operation, all controllers
MaxCalls == 2        \* calls made by components, all controllers
MaxTime == 2         \* ticks of the clock read by Date.now()
MaxSoloCalls == 3    \* calls made by the component of a controller that is alone
MaxStreamCalls == 3  \* startStream, abort and reset calls on the consumer
MaxChunks == 2       \* raw chunks delivered, all streams
MaxPrompts == 2      \* sendPrompt calls on the useAI consumer
MaxIndex == 2        \* largest index passed to removeMessage
MaxPage == 4         \* pages of the infinite scroll
MaxFetches == 5      \* fetchData calls of the infinite scroll

\* ------------------------------------------------------------- JS values
NULL == "null"
UNDEFINED == "undefined"

(***************************************************************************)
(*                              useAsync                                   *)
(***************************************************************************)
Controllers == {"A", "B"}
Keys == {"k"}
ArgLists == {<<"7">>, <<"8">>}
\* what the wrapped operation may throw: an Error object, or a bare string
Thrown == {"Error: oops", "oops"}

\* the wrapped operation of the documentation: f(id) resolves "user:" + id
AsyncFn(args) == IF args = <<>> THEN "user:" \o UNDEFINED ELSE "user:" \o args[1]

IsErrorInstance(t) == t = "Error: oops"
ToErrorObj(t) == IF IsErrorInstance(t) THEN t ELSE "Error: " \o t

\* configurations: staleTime defaults to 0, retryCount to 0, cacheKey to none
RetryCounts == {0, 1, 2}
StaleTimes == {0, 2}
Configs ==
  {[cacheKey |-> NULL, staleTime |-> 0, retryCount |-> n] : n \in RetryCounts}
  \cup {[cacheKey |-> k, staleTime |-> w, retryCount |-> n] :
          k \in Keys, w \in StaleTimes, n \in RetryCounts}
\* controller B is a second component sharing the cache key and reading it
PeerConfigs ==
  {cf \in Configs : cf.cacheKey # NULL /\ cf.staleTime > 0 /\ cf.retryCount = 0}

NoEntry == [has |-> FALSE, data |-> NULL, timestamp |-> 0]

VARIABLES
  cfg,            \* the config each controller was built with
  state,          \* useState<AsyncState>
  abortControllerRef,  \* id of the AbortController in the ref, 0 = null
  abortedSignals, \* ids of the AbortControllers whose signal is aborted
  retryCountRef,
  lastArgsRef,
  invs,           \* invocations of the wrapped operation, in start order
  timers,         \* pending setTimeout retries, in scheduling order
  cache,          \* the module-level Map
  now,            \* Date.now()
  calls,          \* number of calls made by the component, per controller
  lastExecuteArgs,  \* argument list of the last execute call by the component
  ev              \* what the last step did: callbacks fired, value returned

asyncVars == <<cfg, state, abortControllerRef, abortedSignals, retryCountRef,
               lastArgsRef, invs, timers, cache, now, calls, lastExecuteArgs, ev>>

VARIABLES
  config,             \* the config the hook was given
  runtimeConfig,      \* the override the component passes to startStream
  data,               \* useState<string>
  isStreaming,
  isComplete,
  error,
  streamAbortRef,     \* id of the stream whose AbortController is in the ref, 0 = null
  accumulatedTextRef,
  streams,            \* the startStream calls, in order, each at its await
  streamCalls,        \* number of startStream, abort and reset calls
  chunks,             \* number of raw chunks delivered
  afterAbort,         \* abort() was called while isStreaming, no startStream or reset() since
  sev                 \* what the last step did: callbacks fired

streamVars == <<config, runtimeConfig, data, isStreaming, isComplete, error, streamAbortRef,
                accumulatedTextRef, streams, streamCalls, chunks,
                afterAbort, sev>>

VARIABLES
  aiConfig,           \* the config useAI was given
  aiRuntimeConfig,    \* the override the component passes to sendPrompt
  response,           \* useState<string | null>
  aiLoading,
  aiError,
  prompts,            \* the sendPrompt calls, in order, each at its await
  requests,           \* number of fetch calls made by useAI
  aiEv                \* what the last step did: callbacks fired, failure caught

aiVars == <<aiConfig, aiRuntimeConfig, response, aiLoading, aiError, prompts, requests, aiEv>>

VARIABLES
  messages            \* useAIChat: useState<ChatMessage[]>

chatVars == <<messages>>

VARIABLES
  scroll,             \* useInfiniteScroll: page, the props, the fetchData calls made
  search              \* useSmartOSearch: the props, query and filteredItems

viewVars == <<scroll, search>>

vars == <<asyncVars, streamVars, aiVars, chatVars, viewVars>>

\* what the handlers of one hook leave alone: the state of the other hooks
nonAsyncVars == <<streamVars, aiVars, chatVars, viewVars>>
nonStreamVars == <<asyncVars, aiVars, chatVars, viewVars>>
nonAIVars == <<asyncVars, streamVars, viewVars>>

RECURSIVE Sum(_, _)
Sum(f, S) ==
  IF S = {} THEN 0
  ELSE LET x == CHOOSE y \in S : TRUE IN f[x] + Sum(f, S \ {x})

TotalInv == Sum([c \in Controllers |-> Len(invs[c])], Controllers)
TotalCalls == Sum(calls, Controllers)

Ev(op, c, inv, fired, retKind, retVal) ==
  [op |-> op, c |-> c, inv |-> inv, fired |-> fired,
   retKind |-> retKind, retVal |-> retVal]

InitialState == [data |-> NULL, loading |-> FALSE, error |-> NULL, success |-> FALSE]

SuccessState(d) == [data |-> d, loading |-> FALSE, error |-> NULL, success |-> TRUE]

LoadingStateKeepsError(prev) == [prev EXCEPT !.loading = TRUE, !.success = FALSE]

LoadingState(prev) == [prev EXCEPT !.loading = TRUE, !.error = NULL, !.success = FALSE]

ErrorState(prev, e) == [prev EXCEPT !.loading = FALSE, !.error = e, !.success = FALSE]

CancelState(prev) == [prev EXCEPT !.loading = FALSE]

IsFreshInclusive(entry, t, staleTime) == entry.has /\ t - entry.timestamp <= staleTime

IsFreshOffByOne(entry, t, staleTime) == entry.has /\ t - entry.timestamp < staleTime - 1

IsFresh(entry, t, staleTime) == entry.has /\ t - entry.timestamp < staleTime

CacheHit(c) ==
  /\ cfg[c].cacheKey # NULL
  /\ cfg[c].staleTime > 0
  /\ IsFresh(cache[cfg[c].cacheKey], now, cfg[c].staleTime)

IsAbortedAnyController(c) == abortControllerRef[c] # 0

\* abortControllerRef.current?.signal.aborted
IsAborted(c) == abortControllerRef[c] # 0 /\ abortControllerRef[c] \in abortedSignals[c]

\* if (abortControllerRef.current) abortControllerRef.current.abort()
AbortCurrent(c) ==
  IF abortControllerRef[c] # 0
  THEN abortedSignals[c] \cup {abortControllerRef[c]}
  ELSE abortedSignals[c]

ShouldRetryInclusive(c) == retryCountRef[c] <= cfg[c].retryCount

ShouldRetry(c) == retryCountRef[c] < cfg[c].retryCount

\* every call entered on the controller revokes what is pending (ghost)
Revoke(s) == [i \in 1..Len(s) |->
                IF s[i].status = "pending" THEN [s[i] EXCEPT !.revoked = TRUE] ELSE s[i]]

\* reset() or cancel() called while an invocation is in flight (ghost)
Stop(s, op) == [i \in 1..Len(s) |->
                  IF s[i].status = "pending"
                  THEN [s[i] EXCEPT !.revoked = TRUE, !.stopped = @ \cup {op}]
                  ELSE s[i]]

HasPending(s) == \E i \in 1..Len(s) : s[i].status = "pending"

DefaultConfig == [cacheKey |-> NULL, staleTime |-> 0, retryCount |-> 0]

\* the refs and state of freshly built controllers, the empty cache
AsyncConstructed ==
  /\ state = [c \in Controllers |-> InitialState]
  /\ abortControllerRef = [c \in Controllers |-> 0]
  /\ abortedSignals = [c \in Controllers |-> {}]
  /\ retryCountRef = [c \in Controllers |-> 0]
  /\ lastArgsRef = [c \in Controllers |-> <<>>]
  /\ invs = [c \in Controllers |-> <<>>]
  /\ timers = [c \in Controllers |-> <<>>]
  /\ cache = [k \in Keys |-> NoEntry]
  /\ now = 0
  /\ calls = [c \in Controllers |-> 0]
  /\ lastExecuteArgs = [c \in Controllers |-> <<>>]
  /\ ev = Ev("init", NULL, 0, <<>>, NULL, NULL)

InitAsync ==
  /\ cfg \in {f \in [Controllers -> Configs] : f["B"] \in PeerConfigs}
  /\ AsyncConstructed

\* no useAsync controller in use
AsyncIdle ==
  /\ cfg = [c \in Controllers |-> DefaultConfig]
  /\ AsyncConstructed

\* controller B takes part when it shares the cache key; with the default
\* configuration it is not mounted and A alone is driven for more calls
CallBudget == IF cfg["B"] \in PeerConfigs THEN MaxCalls ELSE MaxSoloCalls

\* the body of execute up to the await; src is who called, origin the
\* argument list of the failed invocation behind a timer (ghost)
ExecuteBody(c, args, src, origin) ==
  /\ CacheHit(c) \/ TotalInv < MaxInv
  /\ abortedSignals' = [abortedSignals EXCEPT ![c] = AbortCurrent(c)]
  /\ IF CacheHit(c)
     THEN LET cached == cache[cfg[c].cacheKey] IN
          /\ state' = [state EXCEPT ![c] = SuccessState(cached.data)]
          /\ invs' = [invs EXCEPT ![c] = Revoke(@)]
          /\ ev' = Ev("execute", c, 0, <<<<"onSuccess", cached.data>>>>,
                      "resolve", cached.data)
          /\ UNCHANGED <<abortControllerRef, lastArgsRef>>
     ELSE LET id == Len(invs[c]) + 1 IN
          /\ abortControllerRef' = [abortControllerRef EXCEPT ![c] = id]
          /\ lastArgsRef' = [lastArgsRef EXCEPT ![c] = args]
          /\ state' = [state EXCEPT ![c] = LoadingState(@)]
          /\ invs' = [invs EXCEPT ![c] =
                        Append(Revoke(@),
                               [args |-> args, src |-> src, origin |-> origin,
                                status |-> "pending", result |-> NULL,
                                overlap |-> HasPending(@), revoked |-> FALSE,
                                stopped |-> {}])]
          /\ ev' = Ev("execute", c, id, <<>>, "pending", NULL)
  /\ UNCHANGED <<cfg, cache, now>>

Execute(c, args) ==
  /\ UNCHANGED nonAsyncVars
  /\ TotalCalls < CallBudget
  /\ calls' = [calls EXCEPT ![c] = @ + 1]
  /\ lastExecuteArgs' = [lastExecuteArgs EXCEPT ![c] = args]
  /\ ExecuteBody(c, args, "execute", args)
  /\ UNCHANGED <<retryCountRef, timers>>

Retry(c) ==
  /\ UNCHANGED nonAsyncVars
  /\ TotalCalls < CallBudget
  /\ calls' = [calls EXCEPT ![c] = @ + 1]
  /\ retryCountRef' = [retryCountRef EXCEPT ![c] = 0]
  /\ ExecuteBody(c, lastArgsRef[c], "retry", lastArgsRef[c])
  /\ UNCHANGED <<timers, lastExecuteArgs>>

\* the setTimeout callback: execute(...lastArgsRef.current)
TimerFire(c) ==
  /\ UNCHANGED nonAsyncVars
  /\ timers[c] # <<>>
  /\ timers' = [timers EXCEPT ![c] = Tail(@)]
  /\ ExecuteBody(c, lastArgsRef[c], "timer", Head(timers[c]))
  /\ UNCHANGED <<retryCountRef, calls, lastExecuteArgs>>

\* the wrapped operation resolves: the code after the await, to the return
Resolve(c, i) ==
  /\ UNCHANGED nonAsyncVars
  /\ i \in 1..Len(invs[c])
  /\ invs[c][i].status = "pending"
  /\ LET result == AsyncFn(invs[c][i].args) IN
     /\ invs' = [invs EXCEPT ![c][i].status = "ok", ![c][i].result = result]
     /\ IF IsAborted(c)
        THEN /\ ev' = Ev("settle", c, i, <<>>, "resolve", UNDEFINED)
             /\ UNCHANGED <<state, cache, retryCountRef>>
        ELSE /\ cache' = IF cfg[c].cacheKey # NULL
                         THEN [cache EXCEPT ![cfg[c].cacheKey] =
                                 [has |-> TRUE, data |-> result, timestamp |-> now]]
                         ELSE cache
             /\ state' = [state EXCEPT ![c] = SuccessState(result)]
             /\ retryCountRef' = [retryCountRef EXCEPT ![c] = 0]
             /\ ev' = Ev("settle", c, i, <<<<"onSuccess", result>>>>, "resolve", result)
  /\ UNCHANGED <<cfg, abortControllerRef, abortedSignals, lastArgsRef, timers, now, calls,
                 lastExecuteArgs>>

\* the wrapped operation rejects with t: the catch block
Reject(c, i, t) ==
  /\ UNCHANGED nonAsyncVars
  /\ i \in 1..Len(invs[c])
  /\ invs[c][i].status = "pending"
  /\ LET errorObj == ToErrorObj(t) IN
     /\ invs' = [invs EXCEPT ![c][i].status = "fail", ![c][i].result = errorObj]
     /\ IF IsAborted(c)
        THEN /\ ev' = Ev("settle", c, i, <<>>, "resolve", UNDEFINED)
             /\ UNCHANGED <<state, retryCountRef, timers>>
        ELSE /\ state' = [state EXCEPT ![c] = ErrorState(@, errorObj)]
             /\ IF ShouldRetry(c)
                THEN /\ retryCountRef' = [retryCountRef EXCEPT ![c] = @ + 1]
                     /\ timers' = [timers EXCEPT ![c] = Append(@, invs[c][i].args)]
                ELSE UNCHANGED <<retryCountRef, timers>>
             /\ ev' = Ev("settle", c, i, <<<<"onError", errorObj>>>>, "reject", errorObj)
  /\ UNCHANGED <<cfg, abortControllerRef, abortedSignals, lastArgsRef, cache, now, calls,
                 lastExecuteArgs>>

Reset(c) ==
  /\ UNCHANGED nonAsyncVars
  /\ TotalCalls < CallBudget
  /\ calls' = [calls EXCEPT ![c] = @ + 1]
  /\ abortedSignals' = [abortedSignals EXCEPT ![c] = AbortCurrent(c)]
  /\ state' = [state EXCEPT ![c] = InitialState]
  /\ retryCountRef' = [retryCountRef EXCEPT ![c] = 0]
  /\ invs' = [invs EXCEPT ![c] = Stop(@, "reset")]
  /\ ev' = Ev("reset", c, 0, <<>>, NULL, NULL)
  /\ UNCHANGED <<cfg, abortControllerRef, lastArgsRef, timers, cache, now, lastExecuteArgs>>

Cancel(c) ==
  /\ UNCHANGED nonAsyncVars
  /\ TotalCalls < CallBudget
  /\ calls' = [calls EXCEPT ![c] = @ + 1]
  /\ abortedSignals' = [abortedSignals EXCEPT ![c] = AbortCurrent(c)]
  /\ state' = [state EXCEPT ![c] = CancelState(@)]
  /\ invs' = [invs EXCEPT ![c] = Stop(@, "cancel")]
  /\ ev' = Ev("cancel", c, 0, <<>>, NULL, NULL)
  /\ UNCHANGED <<cfg, abortControllerRef, retryCountRef, lastArgsRef, timers, cache, now,
                 lastExecuteArgs>>

\* time passes; the clock is only ever read against the timestamp of a cache
\* entry, so it is advanced only while that changes what some controller reads
Tick ==
  /\ UNCHANGED nonAsyncVars
  /\ now < MaxTime
  /\ \E c \in Controllers : CacheHit(c)
  /\ now' = now + 1
  /\ ev' = Ev("tick", NULL, 0, <<>>, NULL, NULL)
  /\ UNCHANGED <<cfg, state, abortControllerRef, abortedSignals, retryCountRef,
                 lastArgsRef, invs, timers, cache, calls, lastExecuteArgs>>

NextAsync ==
  \/ \E c \in Controllers, args \in ArgLists : Execute(c, args)
  \/ \E c \in Controllers : Retry(c)
  \/ \E c \in Controllers : TimerFire(c)
  \/ \E c \in Controllers, i \in 1..MaxInv : Resolve(c, i)
  \/ \E c \in Controllers, i \in 1..MaxInv, t \in Thrown : Reject(c, i, t)
  \/ \E c \in Controllers : Reset(c)
  \/ \E c \in Controllers : Cancel(c)
  \/ Tick


(***************************************************************************)
(*                        useAsync: properties                             *)
(***************************************************************************)
Settled(s) == \A i \in 1..Len(s) : s[i].status # "pending"

\* the state a controller that only ever saw invocation r would show
OutcomeOf(r) ==
  IF r.status = "ok"
  THEN [data |-> r.result, loading |-> FALSE, error |-> NULL, success |-> TRUE]
  ELSE [data |-> NULL, loading |-> FALSE, error |-> r.result, success |-> FALSE]

\* C1: execute(b) called while execute(a) is awaiting: once both wrapped
\* operations have settled, the state is the outcome of the second call,
\* whichever settled first.
C1_SecondCallWins ==
  \A c \in Controllers :
    (/\ calls[c] = 2
     /\ Len(invs[c]) = 2
     /\ invs[c][1].src = "execute" /\ invs[c][2].src = "execute"
     /\ invs[c][2].overlap
     /\ Settled(invs[c])
     /\ ev.op = "settle" /\ ev.c = c)
    => state[c] = OutcomeOf(invs[c][2])

\* C2: the completion of an invocation that a later execute has superseded
\* by a newer invocation changes nothing: state, cache, callbacks, retry
\* counter and retry timers.
C2_StaleCompletionDiscarded ==
  [][\A c \in Controllers : \A i \in 1..Len(invs[c]) :
       (/\ invs[c][i].status = "pending"
        /\ invs'[c][i].status # "pending"
        /\ i < Len(invs[c]))
       => /\ state'[c] = state[c]
          /\ cache' = cache
          /\ ev'.fired = <<>>
          /\ retryCountRef'[c] = retryCountRef[c]
          /\ timers'[c] = timers[c]]_asyncVars

\* C3: an execute on a controller with cacheKey k and staleTime W > 0, issued
\* while the entry of k is younger than W, does not invoke the wrapped
\* operation, returns the cached value, shows it as a success and calls
\* onSuccess once with it -- whichever controller wrote the entry.
C3_FreshEntryServedFromCache ==
  [][\A c \in Controllers :
       (/\ ev'.op = "execute" /\ ev'.c = c
        /\ cfg[c].cacheKey # NULL
        /\ cfg[c].staleTime > 0
        /\ cache[cfg[c].cacheKey].has
        /\ now - cache[cfg[c].cacheKey].timestamp < cfg[c].staleTime)
       => LET v == cache[cfg[c].cacheKey].data IN
          /\ invs' = [invs EXCEPT ![c] = Revoke(@)]
          /\ Len(invs'[c]) = Len(invs[c])
          /\ ev'.retKind = "resolve" /\ ev'.retVal = v
          /\ state'[c] = [data |-> v, loading |-> FALSE, error |-> NULL,
                          success |-> TRUE]
          /\ ev'.fired = <<<<"onSuccess", v>>>>
          /\ cache' = cache]_asyncVars

\* B is served, one tick later, the value A's invocation wrote
C3_Witness ==
  /\ ev.op = "execute" /\ ev.c = "B" /\ ev.inv = 0
  /\ invs["B"] = <<>>
  /\ Len(invs["A"]) = 1 /\ invs["A"][1].status = "ok"
  /\ state["B"].success /\ state["B"].data = invs["A"][1].result
  /\ now - cache["k"].timestamp = 1

\* C4: with retryCount = N and one execute(args) by the caller and nothing
\* else, N failures then a success end in success with the result for args;
\* N+1 failures end in the error state, with N retries scheduled and the
\* wrapped operation invoked N+1 times, never more.
C4_RetriesThenOutcome ==
  \A c \in Controllers :
    LET N == cfg[c].retryCount
        s == invs[c]
    IN (calls[c] = 1 /\ Len(s) >= 1 /\ s[1].src = "execute") =>
         /\ Len(s) <= N + 1
         /\ Cardinality({i \in 1..Len(s) : s[i].src = "timer"}) + Len(timers[c]) <= N
         /\ (/\ Len(s) = N + 1 /\ Settled(s)
             /\ \A i \in 1..N : s[i].status = "fail"
             /\ s[N + 1].status = "ok")
            => /\ state[c] = [data |-> AsyncFn(s[1].args), loading |-> FALSE,
                              error |-> NULL, success |-> TRUE]
               /\ timers[c] = <<>>
         /\ (/\ Len(s) = N + 1 /\ Settled(s)
             /\ \A i \in 1..(N + 1) : s[i].status = "fail")
            => /\ state[c].error = s[N + 1].result /\ state[c].error # NULL
               /\ ~state[c].success /\ ~state[c].loading
               /\ Cardinality({i \in 1..Len(s) : s[i].src = "timer"}) = N
               /\ timers[c] = <<>>

\* retryCount 2: two failures, then the third invocation succeeds
C4_Witness ==
  \E c \in Controllers :
    /\ cfg[c].retryCount = 2 /\ calls[c] = 1 /\ Len(invs[c]) = 3
    /\ invs[c][1].status = "fail" /\ invs[c][2].status = "fail"
    /\ invs[c][3].status = "ok"
    /\ state[c].success /\ state[c].data = AsyncFn(invs[c][1].args)

\* C5: an automatic retry re-invokes the wrapped operation with the argument
\* list of the execute that failed, whatever execute calls came in between.
C5_RetryKeepsArgs ==
  \A c \in Controllers : \A i \in 1..Len(invs[c]) :
    invs[c][i].src = "timer" => invs[c][i].args = invs[c][i].origin

\* the invocation no later call on its controller has revoked
Live(c, i) == i = Len(invs[c]) /\ ~invs[c][i].revoked

\* C6: the failure of the live invocation sets error, loading = false and
\* success = false, calls onError once and rejects the promise of execute
\* with that error, on the first failure and on every retry failure.
C6_LiveFailureReported ==
  [][\A c \in Controllers : \A i \in 1..Len(invs[c]) :
       (/\ invs[c][i].status = "pending"
        /\ invs'[c][i].status = "fail"
        /\ Live(c, i))
       => LET e == invs'[c][i].result IN
          /\ IsErrorInstance(e)
          /\ state'[c] = [data |-> state[c].data, loading |-> FALSE,
                          error |-> e, success |-> FALSE]
          /\ ev'.fired = <<<<"onError", e>>>>
          /\ ev'.retKind = "reject" /\ ev'.retVal = e]_asyncVars

\* a retry has failed, is reported, and a further retry is scheduled
C6_Witness ==
  \E c \in Controllers :
    /\ ev.op = "settle" /\ ev.c = c /\ ev.retKind = "reject"
    /\ invs[c][ev.inv].src = "timer"
    /\ state[c].error = ev.retVal /\ ev.fired = <<<<"onError", ev.retVal>>>>
    /\ timers[c] # <<>>

\* C7: loading implies no success and no error; success implies no error.
C7_StateConsistent ==
  \A c \in Controllers :
    /\ state[c].loading => (~state[c].success /\ state[c].error = NULL)
    /\ state[c].success => state[c].error = NULL

\* a retry is in flight after a failure that had been shown
C7_Witness ==
  \E c \in Controllers :
    /\ state[c].loading
    /\ Len(invs[c]) = 2 /\ invs[c][1].status = "fail" /\ invs[c][2].status = "pending"
    /\ invs[c][2].src = "timer"
(***************************************************************************)
(*                             useAIStream                                 *)
(***************************************************************************)
\* {} and undefined under the spread operator
EmptyObj == <<>>

RawChunks == {"data: a", "data: b", "data: [DONE]"}

\* configurations of the hook: the bare one, the documented
\* server-sent-events one with headers, body, callbacks and a parseChunk,
\* and a GET one
BareConfig == "url" :> "/api/stream"

ChatConfig ==
  "url" :> "/api/chat"
    @@ "headers" :> ("Authorization" :> "Bearer K" @@ "Content-Type" :> "json")
    @@ "body" :> ("model" :> "m" @@ "prompt" :> "p")
    @@ "parseChunk" :> "sse"
    @@ "onChunk" :> "onChunk" @@ "onComplete" :> "onComplete"
    @@ "onError" :> "onError"

FeedConfig == "url" :> "/api/feed" @@ "method" :> "GET" @@ "onError" :> "onError"

\* an override for startStream: another prompt, another header and a parser
\* that throws on what it cannot parse
PromptOverride ==
  "body" :> ("prompt" :> "q") @@ "headers" :> ("Content-Type" :> "text")
    @@ "parseChunk" :> "strict"

\* the uses of the hook: <<config, argument of startStream>>
StreamSetups ==
  { <<BareConfig, EmptyObj>>, <<ChatConfig, EmptyObj>>,
    <<ChatConfig, PromptOverride>>, <<FeedConfig, EmptyObj>> }

\* what the server behind a url sends: the plain-text endpoint of the bare
\* configuration never sends the [DONE] marker of the SSE endpoints
ServerChunks(url) ==
  IF url = BareConfig["url"] THEN RawChunks \ {"data: [DONE]"} ELSE RawChunks

\* the parseChunk functions: the SSE parser of the documentation, which
\* returns null for the [DONE] marker, and one that throws on it
ParseChunk(p, chunk) ==
  CASE chunk = "data: a" -> [kind |-> "text", text |-> "a"]
    [] chunk = "data: b" -> [kind |-> "text", text |-> "b"]
    [] OTHER -> IF p = "sse"
                THEN [kind |-> "null", text |-> NULL]
                ELSE [kind |-> "throw", text |-> "SyntaxError: Unexpected token"]

Field(cf, k) == IF k \in DOMAIN cf THEN cf[k] ELSE EmptyObj

SpreadBaseWins(a, b) == a @@ b

\* {...a, ...b}
Spread(a, b) == b @@ a

MergedConfig(base, rt) ==
  ("headers" :> Spread(Field(base, "headers"), Field(rt, "headers"))
     @@ "body" :> Spread(Field(base, "body"), Field(rt, "body")))
  @@ Spread(base, rt)

\* an object is truthy, the empty one included
Truthy(obj) == TRUE

Stringify(obj) == <<"JSON", obj>>

\* the arguments of fetch
Request(mc) ==
  [url |-> mc["url"],
   method |-> IF "method" \in DOMAIN mc THEN mc["method"] ELSE "POST",
   headers |-> mc["headers"],
   hasBody |-> Truthy(mc["body"]),
   body |-> IF Truthy(mc["body"]) THEN Stringify(mc["body"]) ELSE <<>>]

AbortError == "AbortError: The user aborted a request."

IsAbortErrorAlways(err) == TRUE

\* err.name === "AbortError"
IsAbortError(err) == err = AbortError

\* how a fetch that was not aborted may end
FetchOutcomes(req) ==
  IF req.method = "GET" /\ req.hasBody
  THEN {"TypeError: Request with GET/HEAD method cannot have body."}
  ELSE {"ok", "TypeError: Failed to fetch", "Error: HTTP error! status: 500",
        "Error: Response body is not readable"}


SEv(op, s, fired) == [op |-> op, s |-> s, fired |-> fired]

\* a startStream call that has returned leaves nothing behind
Closed ==
  [mc |-> EmptyObj, req |-> EmptyObj, phase |-> "closed", aborted |-> FALSE,
   got |-> <<>>, solo |-> FALSE]

\* if (mergedConfig.onX) mergedConfig.onX(arg)
Fire(mc, name, arg) == IF name \in DOMAIN mc THEN <<<<mc[name], arg>>>> ELSE <<>>

IsSkipNever(parsed) == FALSE

\* if (parsed === null) continue
IsSkip(parsed) == parsed.kind = "null"

AccumulatePrepend(acc, piece) == piece \o acc

Accumulate(acc, piece) == acc \o piece

Open(s) == s \in 1..Len(streams) /\ streams[s].phase # "closed"

StreamConstructed ==
  /\ data = ""
  /\ isStreaming = FALSE
  /\ isComplete = FALSE
  /\ error = NULL
  /\ streamAbortRef = 0
  /\ accumulatedTextRef = ""
  /\ streams = <<>>
  /\ streamCalls = 0
  /\ chunks = 0
  /\ afterAbort = FALSE
  /\ sev = SEv("init", 0, <<>>)

InitStream ==
  /\ \E su \in StreamSetups : config = su[1] /\ runtimeConfig = su[2]
  /\ StreamConstructed

\* no useAIStream consumer in use
StreamIdle ==
  /\ config = BareConfig
  /\ runtimeConfig = EmptyObj
  /\ StreamConstructed

\* startStream up to the await of fetch
StartStream ==
  /\ UNCHANGED nonStreamVars
  /\ streamCalls < MaxStreamCalls
  /\ streamCalls' = streamCalls + 1
  /\ LET mc == MergedConfig(config, runtimeConfig)
         id == Len(streams) + 1
         others == [s \in 1..Len(streams) |->
                      IF streams[s].phase # "closed"
                      THEN [streams[s] EXCEPT !.solo = FALSE] ELSE streams[s]]
     IN /\ streams' = Append(others,
                        [mc |-> mc, req |-> Request(mc), phase |-> "fetch",
                         aborted |-> FALSE, got |-> <<>>,
                         solo |-> \A s \in 1..Len(streams) : ~Open(s)])
        /\ streamAbortRef' = id
        /\ sev' = SEv("start", id, <<>>)
  /\ data' = ""
  /\ error' = NULL
  /\ isStreaming' = TRUE
  /\ isComplete' = FALSE
  /\ accumulatedTextRef' = ""
  /\ afterAbort' = FALSE
  /\ UNCHANGED <<config, runtimeConfig, chunks>>

\* the catch block for an error thrown inside the try, and the finally block
StreamFails(s, err) ==
  /\ streams' = [streams EXCEPT ![s] = Closed]
  /\ IF IsAbortError(err)
     THEN /\ sev' = SEv("fail", s, <<>>)
          /\ UNCHANGED <<error, isStreaming>>
     ELSE /\ error' = err
          /\ isStreaming' = FALSE
          /\ sev' = SEv("fail", s, Fire(streams[s].mc, "onError", err))
  /\ streamAbortRef' = 0
  /\ UNCHANGED <<config, runtimeConfig, data, isComplete, accumulatedTextRef, streamCalls,
                 afterAbort>>

\* fetch settles: response checks, getReader, first reader.read()
Connect(s, outcome) ==
  /\ UNCHANGED nonStreamVars
  /\ Open(s) /\ streams[s].phase = "fetch" /\ ~streams[s].aborted
  /\ outcome \in FetchOutcomes(streams[s].req)
  /\ IF outcome = "ok"
     THEN /\ streams' = [streams EXCEPT ![s].phase = "read"]
          /\ sev' = SEv("connect", s, <<>>)
          /\ UNCHANGED <<config, runtimeConfig, data, isStreaming, isComplete, error, streamAbortRef,
                         accumulatedTextRef, streamCalls, afterAbort>>
     ELSE StreamFails(s, outcome)
  /\ UNCHANGED chunks

\* reader.read() yields a chunk: one turn of the loop
ReadChunk(s, chunk) ==
  /\ UNCHANGED nonStreamVars
  /\ Open(s) /\ streams[s].phase = "read" /\ ~streams[s].aborted
  /\ chunks < MaxChunks
  /\ chunk \in ServerChunks(streams[s].req.url)
  /\ LET mc == streams[s].mc
         parsed == IF "parseChunk" \in DOMAIN mc
                   THEN ParseChunk(mc["parseChunk"], chunk)
                   ELSE [kind |-> "text", text |-> chunk]
         got == Append(streams[s].got, chunk)
     IN CASE IsSkip(parsed) ->
               /\ streams' = [streams EXCEPT ![s].got = got]
               /\ sev' = SEv("chunk", s, <<>>)
               /\ UNCHANGED <<config, runtimeConfig, data, isStreaming, isComplete, error,
                              streamAbortRef, accumulatedTextRef, streamCalls,
                              afterAbort>>
          [] parsed.kind = "throw" -> StreamFails(s, parsed.text)
          [] OTHER ->
               /\ streams' = [streams EXCEPT ![s].got = got]
               /\ accumulatedTextRef' = Accumulate(accumulatedTextRef, parsed.text)
               /\ data' = accumulatedTextRef'
               /\ sev' = SEv("chunk", s, Fire(mc, "onChunk", parsed.text))
               /\ UNCHANGED <<config, runtimeConfig, isStreaming, isComplete, error, streamAbortRef,
                              streamCalls, afterAbort>>
  /\ chunks' = chunks + 1

CompletedStillStreaming == [isComplete |-> TRUE, isStreaming |-> TRUE]

\* setIsComplete(true); setIsStreaming(false)
Completed == [isComplete |-> TRUE, isStreaming |-> FALSE]

\* reader.read() yields done
ReadDone(s) ==
  /\ UNCHANGED nonStreamVars
  /\ Open(s) /\ streams[s].phase = "read" /\ ~streams[s].aborted
  /\ streams' = [streams EXCEPT ![s] = Closed]
  /\ isComplete' = Completed.isComplete
  /\ isStreaming' = Completed.isStreaming
  /\ streamAbortRef' = 0
  /\ sev' = SEv("done", s, Fire(streams[s].mc, "onComplete", accumulatedTextRef))
  /\ UNCHANGED <<config, runtimeConfig, data, error, accumulatedTextRef, streamCalls, chunks,
                 afterAbort>>

\* reader.read() rejects: the transport failed
ReadFails(s) ==
  /\ UNCHANGED nonStreamVars
  /\ Open(s) /\ streams[s].phase = "read" /\ ~streams[s].aborted
  /\ StreamFails(s, "TypeError: network error")
  /\ UNCHANGED chunks

\* the pending fetch or read of an aborted stream rejects with AbortError:
\* the catch block ignores it, the finally block clears the ref
AbortObserved(s) ==
  /\ UNCHANGED nonStreamVars
  /\ Open(s) /\ streams[s].aborted
  /\ IsAbortError(AbortError)
  /\ streams' = [streams EXCEPT ![s] = Closed]
  /\ streamAbortRef' = 0
  /\ sev' = SEv("aborted", s, <<>>)
  /\ UNCHANGED <<config, runtimeConfig, data, isStreaming, isComplete, error, accumulatedTextRef, streamCalls, chunks, afterAbort>>

\* the streams after abort()
AbortedStreams ==
  IF streamAbortRef # 0
  THEN [streams EXCEPT ![streamAbortRef].aborted = TRUE]
  ELSE streams

\* abort(); with no controller in the ref and nothing shown as streaming the
\* call does nothing at all and is left out
Abort ==
  /\ UNCHANGED nonStreamVars
  /\ streamAbortRef # 0 \/ isStreaming
  /\ streamCalls < MaxStreamCalls
  /\ streamCalls' = streamCalls + 1
  /\ streams' = AbortedStreams
  /\ streamAbortRef' = 0
  /\ isStreaming' = IF streamAbortRef # 0 THEN FALSE ELSE isStreaming
  /\ afterAbort' = (isStreaming \/ afterAbort)
  /\ sev' = SEv("abort", 0, <<>>)
  /\ UNCHANGED <<config, runtimeConfig, data, isComplete, error, accumulatedTextRef, chunks>>

StreamReset ==
  /\ UNCHANGED nonStreamVars
  /\ streamCalls < MaxStreamCalls
  /\ streamCalls' = streamCalls + 1
  /\ streams' = AbortedStreams
  /\ streamAbortRef' = 0
  /\ isStreaming' = IF streamAbortRef # 0 THEN FALSE ELSE isStreaming
  /\ data' = ""
  /\ error' = NULL
  /\ isComplete' = FALSE
  /\ accumulatedTextRef' = ""
  /\ afterAbort' = FALSE
  /\ sev' = SEv("reset", 0, <<>>)
  /\ UNCHANGED <<config, runtimeConfig, chunks>>

NextStream ==
  \/ StartStream
  \/ \E s \in 1..MaxStreamCalls, o \in FetchOutcomes([method |-> "POST", hasBody |-> TRUE])
                                    \cup FetchOutcomes([method |-> "GET", hasBody |-> TRUE]) :
       Connect(s, o)
  \/ \E s \in 1..MaxStreamCalls, chunk \in RawChunks : ReadChunk(s, chunk)
  \/ \E s \in 1..MaxStreamCalls : ReadDone(s)
  \/ \E s \in 1..MaxStreamCalls : ReadFails(s)
  \/ \E s \in 1..MaxStreamCalls : AbortObserved(s)
  \/ Abort
  \/ StreamReset

(***************************************************************************)
(*                                useAI                                    *)
(***************************************************************************)
BuiltIn == {"groq", "huggingface", "together"}

GroqConfig ==
  "provider" :> "groq" @@ "apiKey" :> "gsk_1"
    @@ "onSuccess" :> "onSuccess" @@ "onError" :> "onError"

KeylessConfig == "provider" :> "huggingface" @@ "onError" :> "onError"

CustomConfig ==
  "provider" :> "custom" @@ "apiUrl" :> "/api/my-ai"
    @@ "onSuccess" :> "onSuccess" @@ "onError" :> "onError"

\* a provider the table does not have
OpenAIConfig == "provider" :> "openai" @@ "apiKey" :> "sk_1" @@ "onError" :> "onError"

KeyOverride == "apiKey" :> "hf_1"

CustomOverride == "provider" :> "custom"

\* the uses of the hook: <<config, second argument of sendPrompt>>
AISetups ==
  { <<GroqConfig, EmptyObj>>, <<GroqConfig, CustomOverride>>,
    <<KeylessConfig, EmptyObj>>, <<KeylessConfig, KeyOverride>>,
    <<CustomConfig, EmptyObj>>, <<EmptyObj, EmptyObj>>, <<OpenAIConfig, EmptyObj>> }

PromptTexts == {"p1", "p2"}

\* response bodies: an answer every provider's parser finds, an error
\* document, an empty object, and text that is not JSON
AnswerBody ==
  [json |-> TRUE,
   fields |-> ("response" :> "hi" @@ "choices" :> "hi" @@ "generated_text" :> "hi")]
ErrorBody == [json |-> TRUE, fields |-> ("message" :> "quota exceeded")]
EmptyBody == [json |-> TRUE, fields |-> EmptyObj]
BrokenBody == [json |-> FALSE, fields |-> EmptyObj]

Bodies == {AnswerBody, ErrorBody, EmptyBody, BrokenBody}

NoReply == [net |-> FALSE, ok |-> FALSE, body |-> BrokenBody]

\* how a fetch may settle: rejected by the network, or a response
Replies ==
  {NoReply} \cup [net : {TRUE}, ok : BOOLEAN, body : Bodies]

\* mergedConfig.provider || "groq"
AIProvider(mc) == IF "provider" \in DOMAIN mc THEN mc["provider"] ELSE "groq"

MissingNever(mc, k) == FALSE

\* !mergedConfig.k
Missing(mc, k) == k \notin DOMAIN mc

\* the checks made before any request; NULL when they pass
ConfigError(mc) ==
  LET provider == AIProvider(mc)
  IN IF provider = "custom"
     THEN IF Missing(mc, "apiUrl")
          THEN "Error: apiUrl is required for custom provider"
          ELSE NULL
     ELSE IF provider \notin BuiltIn
          THEN "Error: Unknown provider: " \o provider
          ELSE IF Missing(mc, "apiKey")
               THEN "Error: API key is required for " \o provider \o " provider"
               ELSE NULL

\* a || b || c || "" over the fields of a parsed document
RECURSIVE FirstOf(_, _)
FirstOf(fields, names) ==
  IF names = <<>> THEN ""
  ELSE IF Head(names) \in DOMAIN fields /\ fields[Head(names)] # ""
       THEN fields[Head(names)]
       ELSE FirstOf(fields, Tail(names))

\* providerConfig.parseResponse(data)
ParseResponse(provider, fields) ==
  IF provider = "huggingface"
  THEN FirstOf(fields, <<"generated_text">>)
  ELSE FirstOf(fields, <<"choices">>)

HttpError == "Error: HTTP error! status: 500"

JsonError == "SyntaxError: Unexpected token"

\* the Error thrown for a non-ok response of a built-in provider
ProviderError(body) ==
  LET errorData == IF body.json THEN body.fields ELSE EmptyObj
      message == FirstOf(errorData, <<"error", "message">>)
  IN IF message # "" THEN "Error: " \o message ELSE HttpError

AIEv(op, p, failed, err, fired) ==
  [op |-> op, p |-> p, failed |-> failed, err |-> err, fired |-> fired]

\* a sendPrompt call whose promise has resolved leaves nothing behind
Settled0 ==
  [mc |-> EmptyObj, prompt |-> "", phase |-> "closed", reply |-> NoReply]

AIConstructed ==
  /\ response = NULL
  /\ aiLoading = FALSE
  /\ aiError = NULL
  /\ prompts = <<>>
  /\ requests = 0
  /\ aiEv = AIEv("init", 0, FALSE, NULL, <<>>)

\* no useAI consumer and no useAIChat consumer in use
AIIdle ==
  /\ aiConfig = EmptyObj
  /\ aiRuntimeConfig = EmptyObj
  /\ AIConstructed
  /\ messages = <<>>

\* sendPrompt up to the await of fetch, or through catch and finally when a
\* check fails before it
DoSendPrompt(prompt) ==
  /\ Len(prompts) < MaxPrompts
  /\ LET mc == Spread(aiConfig, aiRuntimeConfig)
         p == Len(prompts) + 1
         failure == ConfigError(mc)
     IN IF failure # NULL
        THEN /\ prompts' = Append(prompts, Settled0)
             /\ aiError' = failure
             /\ aiLoading' = FALSE
             /\ aiEv' = AIEv("send", p, TRUE, failure, Fire(mc, "onError", failure))
             /\ UNCHANGED <<response, requests>>
        ELSE /\ prompts' = Append(prompts,
                             [mc |-> mc, prompt |-> prompt, phase |-> "fetch",
                              reply |-> NoReply])
             /\ aiError' = NULL
             /\ aiLoading' = TRUE
             /\ requests' = requests + 1
             /\ aiEv' = AIEv("send", p, FALSE, NULL, <<>>)
             /\ UNCHANGED response
  /\ UNCHANGED <<aiConfig, aiRuntimeConfig>>

\* the catch block and the finally block
AIFails(p, err) ==
  /\ prompts' = [prompts EXCEPT ![p] = Settled0]
  /\ aiError' = err
  /\ aiLoading' = FALSE
  /\ aiEv' = AIEv("settle", p, TRUE, err, Fire(prompts[p].mc, "onError", err))
  /\ UNCHANGED <<aiConfig, aiRuntimeConfig, response, requests>>

\* setResponse(text), onSuccess, and the finally block
AISucceeds(p, text) ==
  /\ prompts' = [prompts EXCEPT ![p] = Settled0]
  /\ response' = text
  /\ aiLoading' = FALSE
  /\ aiEv' = AIEv("settle", p, FALSE, NULL, Fire(prompts[p].mc, "onSuccess", text))
  /\ UNCHANGED <<aiConfig, aiRuntimeConfig, aiError, requests>>

\* fetch settles; a custom endpoint's non-ok response throws at once
DoFetchSettles(p, reply) ==
  /\ p \in 1..Len(prompts) /\ prompts[p].phase = "fetch"
  /\ IF ~reply.net
     THEN AIFails(p, "TypeError: Failed to fetch")
     ELSE IF AIProvider(prompts[p].mc) = "custom" /\ ~reply.ok
          THEN AIFails(p, HttpError)
          ELSE /\ prompts' = [prompts EXCEPT ![p].phase = "json", ![p].reply = reply]
               /\ aiEv' = AIEv("response", p, FALSE, NULL, <<>>)
               /\ UNCHANGED <<aiConfig, aiRuntimeConfig, response, aiLoading, aiError,
                              requests>>

\* response.json() settles
DoBodyRead(p) ==
  /\ p \in 1..Len(prompts) /\ prompts[p].phase = "json"
  /\ LET provider == AIProvider(prompts[p].mc)
         reply == prompts[p].reply
     IN IF ~reply.ok
        THEN AIFails(p, ProviderError(reply.body))
        ELSE IF ~reply.body.json
             THEN AIFails(p, JsonError)
             ELSE IF provider = "custom"
                  THEN AISucceeds(p, FirstOf(reply.body.fields,
                                             <<"response", "text", "content">>))
                  ELSE AISucceeds(p, ParseResponse(provider, reply.body.fields))

\* clear()
DoClear ==
  /\ response' = NULL
  /\ aiError' = NULL
  /\ aiEv' = AIEv("clear", 0, FALSE, NULL, <<>>)
  /\ UNCHANGED <<aiConfig, aiRuntimeConfig, aiLoading, prompts, requests>>

InitAI ==
  /\ \E su \in AISetups : aiConfig = su[1] /\ aiRuntimeConfig = su[2]
  /\ AIConstructed
  /\ messages = <<>>

SendPrompt(prompt) == DoSendPrompt(prompt) /\ UNCHANGED <<nonAIVars, chatVars>>

FetchSettles(p, reply) == DoFetchSettles(p, reply) /\ UNCHANGED <<nonAIVars, chatVars>>

BodyRead(p) == DoBodyRead(p) /\ UNCHANGED <<nonAIVars, chatVars>>

\* clear(); with nothing to clear the call changes nothing and is left out
Clear ==
  /\ response # NULL \/ aiError # NULL
  /\ DoClear
  /\ UNCHANGED <<nonAIVars, chatVars>>

NextAI ==
  \/ \E prompt \in PromptTexts : SendPrompt(prompt)
  \/ \E p \in 1..MaxPrompts, reply \in Replies : FetchSettles(p, reply)
  \/ \E p \in 1..MaxPrompts : BodyRead(p)
  \/ Clear

(***************************************************************************)
(*                               useAIChat                                 *)
(***************************************************************************)
SystemMessage == [role |-> "system", content |-> "You are a tutor."]

\* a chat with a system message and room for two messages, one with room
\* for two and no system message, and one with the default room
TutorChat ==
  "provider" :> "groq" @@ "apiKey" :> "gsk_1" @@ "maxHistory" :> 2
    @@ "initialMessages" :> <<SystemMessage>>

ShortChat == "provider" :> "custom" @@ "apiUrl" :> "/api/my-ai" @@ "maxHistory" :> 2

RoomyChat ==
  "provider" :> "groq" @@ "apiKey" :> "gsk_1" @@ "onError" :> "onError"
    @@ "initialMessages" :> <<SystemMessage, [role |-> "user", content |-> "q0"]>>

ChatConfigs == {TutorChat, ShortChat, RoomyChat}

UserTexts == {"q1", "q2"}

\* the replies a chat sees: no connection, an answer, a refusal
ChatReplies ==
  {NoReply, [net |-> TRUE, ok |-> TRUE, body |-> AnswerBody],
   [net |-> TRUE, ok |-> FALSE, body |-> ErrorBody]}

DefaultMaxHistory == 50

\* config.maxHistory || 50
MaxHistoryOf(cf) ==
  IF "maxHistory" \in DOMAIN cf /\ cf["maxHistory"] # 0
  THEN cf["maxHistory"] ELSE DefaultMaxHistory

IsSystem(m) == m.role = "system"
IsChat(m) == m.role # "system"

SystemMessagesDropped(msgs) == <<>>

\* messages.filter((m) => m.role === "system")
SystemMessages(msgs) == SelectSeq(msgs, IsSystem)

\* seq.slice(-n), n > 0
LastN(seq, n) == IF Len(seq) <= n THEN seq ELSE SubSeq(seq, Len(seq) - n + 1, Len(seq))

\* the updater of onSuccess
WithAnswer(prev, text, maxHistory) ==
  LET newMessages == Append(prev, [role |-> "assistant", content |-> text])
  IN IF Len(newMessages) > maxHistory
     THEN SystemMessages(newMessages) \o LastN(SelectSeq(newMessages, IsChat), maxHistory)
     ELSE newMessages

Rendered(m) == (IF m.role = "user" THEN "User" ELSE "Assistant") \o ": " \o m.content

\* lines.join("\n\n")
RECURSIVE Join(_)
Join(lines) ==
  IF lines = <<>> THEN ""
  ELSE IF Len(lines) = 1 THEN Head(lines)
       ELSE Head(lines) \o "\n\n" \o Join(Tail(lines))

\* the prompt sendMessage builds from the messages of the last render
FullPrompt(msgs, message) ==
  LET chat == SelectSeq(msgs, IsChat)
      conversationHistory == Join([i \in 1..Len(chat) |-> Rendered(chat[i])])
  IN IF conversationHistory # ""
     THEN conversationHistory \o "\n\nUser: " \o message
     ELSE message

\* useAI({...config, onSuccess: ...})
ChatAIConfig(cf) == Spread(cf, "onSuccess" :> "chatOnSuccess")

InitChat ==
  /\ \E cf \in ChatConfigs :
       /\ aiConfig = ChatAIConfig(cf)
       /\ messages = Field(cf, "initialMessages")
  /\ aiRuntimeConfig = EmptyObj
  /\ AIConstructed

SendMessage(message) ==
  /\ messages' = Append(messages, [role |-> "user", content |-> message])
  /\ DoSendPrompt(FullPrompt(messages, message))
  /\ UNCHANGED nonAIVars

ChatFetchSettles(p, reply) ==
  /\ DoFetchSettles(p, reply)
  /\ UNCHANGED <<nonAIVars, messages>>

\* response.json() settles; on success useAI calls the onSuccess of the chat
ChatBodyRead(p) ==
  /\ DoBodyRead(p)
  /\ messages' = IF aiEv'.fired # <<>> /\ aiEv'.fired[1][1] = "chatOnSuccess"
                 THEN WithAnswer(messages, aiEv'.fired[1][2], MaxHistoryOf(aiConfig))
                 ELSE messages
  /\ UNCHANGED nonAIVars

ClearChat ==
  /\ messages' = SystemMessages(messages)
  /\ DoClear
  /\ UNCHANGED nonAIVars

\* removeMessage(index), index counted from 0
RemoveMessage(index) ==
  /\ index < Len(messages)
  /\ messages' = [i \in 1..(Len(messages) - 1) |->
                    IF i <= index THEN messages[i] ELSE messages[i + 1]]
  /\ UNCHANGED <<nonAIVars, aiVars>>

NextChat ==
  \/ \E message \in UserTexts : SendMessage(message)
  \/ \E p \in 1..MaxPrompts, reply \in ChatReplies : ChatFetchSettles(p, reply)
  \/ \E p \in 1..MaxPrompts : ChatBodyRead(p)
  \/ ClearChat
  \/ \E index \in 0..MaxIndex : RemoveMessage(index)

(***************************************************************************)
(*                           useInfiniteScroll                             *)
(***************************************************************************)
\* after the mount: page 1 and the first run of the fetch effect; inline
\* says that the component builds fetchData anew on every render
Mounted(hasMoreData, inline) ==
  [page |-> 1, hasMoreData |-> hasMoreData, inline |-> inline, fetched |-> <<1>>]

ScrollIdle == scroll = Mounted(FALSE, FALSE)

InitScroll == \E hasMoreData, inline \in BOOLEAN : scroll = Mounted(hasMoreData, inline)

\* the observer reports the loader: handleObserver, then the render and the
\* fetch effect if page changed
Intersect(isIntersecting) ==
  /\ scroll.page < MaxPage /\ Len(scroll.fetched) < MaxFetches
  /\ scroll' = IF isIntersecting /\ scroll.hasMoreData
               THEN [scroll EXCEPT !.page = @ + 1,
                                   !.fetched = Append(@, scroll.page + 1)]
               ELSE scroll
  /\ UNCHANGED <<asyncVars, streamVars, aiVars, chatVars, search>>

\* the component renders again and passes hasMoreData: the fetch effect
\* runs when one of [page, fetchData] differs from the last render
Rerender(hasMoreData) ==
  /\ Len(scroll.fetched) < MaxFetches
  /\ scroll' = [scroll EXCEPT !.hasMoreData = hasMoreData,
                              !.fetched = IF scroll.inline
                                          THEN Append(@, scroll.page) ELSE @]
  /\ UNCHANGED <<asyncVars, streamVars, aiVars, chatVars, search>>

\* setPage(p) by the component
SetPage(p) ==
  /\ Len(scroll.fetched) < MaxFetches
  /\ p # scroll.page
  /\ scroll' = [scroll EXCEPT !.page = p, !.fetched = Append(@, p)]
  /\ UNCHANGED <<asyncVars, streamVars, aiVars, chatVars, search>>

NextScroll ==
  \/ \E isIntersecting \in BOOLEAN : Intersect(isIntersecting)
  \/ \E hasMoreData \in BOOLEAN : Rerender(hasMoreData)
  \/ \E p \in 1..MaxPage : SetPage(p)

(***************************************************************************)
(*                            useSmartOSearch                              *)
(***************************************************************************)
\* strings are sequences of characters
Ann == "name" :> <<"A", "n">> @@ "email" :> <<"a", "@", "b">>
Bob == "name" :> <<"b", "o">> @@ "email" :> <<"B", "@", "b">>
Abe == "name" :> <<"A", "b">>

ItemLists == {<<>>, <<Bob, Ann>>, <<Ann, Abe, Bob>>, <<Abe, Abe>>}

FilterKeyLists == {<<>>, <<"name">>, <<"name", "email">>}

Queries == {<<>>, <<"a">>, <<"B">>, <<"n", "o">>}

CharCode(ch) ==
  CASE ch = "@" -> 64 [] ch = "A" -> 65 [] ch = "B" -> 66
    [] ch = "a" -> 97 [] ch = "b" -> 98 [] ch = "n" -> 110 [] ch = "o" -> 111

LowerOf(ch) == CASE ch = "A" -> "a" [] ch = "B" -> "b" [] OTHER -> ch

\* _.toLower
ToLower(s) == [i \in 1..Len(s) |-> LowerOf(s[i])]

\* _.includes(text, part)
Includes(text, part) ==
  \E i \in 0..(Len(text) - Len(part)) : SubSeq(text, i + 1, i + Len(part)) = part

\* item[key]?.toString(), "" under _.toLower when the field is missing
FieldText(item, key) == IF key \in DOMAIN item THEN item[key] ELSE <<>>

\* filterKeys.some((key) => _.includes(_.toLower(...), _.toLower(query)))
SomeKey(item, filterKeys, query) ==
  \E i \in 1..Len(filterKeys) :
    Includes(ToLower(FieldText(item, filterKeys[i])), ToLower(query))

RECURSIVE StrLess(_, _)
StrLess(a, b) ==
  IF b = <<>> THEN FALSE
  ELSE IF a = <<>> THEN TRUE
  ELSE IF Head(a) = Head(b) THEN StrLess(Tail(a), Tail(b))
  ELSE CharCode(Head(a)) < CharCode(Head(b))

\* compareAscending: a missing value is greater than every value
KeyLess(x, y, key) ==
  IF key \notin DOMAIN x THEN FALSE
  ELSE IF key \notin DOMAIN y THEN TRUE
  ELSE StrLess(x[key], y[key])

\* x goes before y in the order
Before(x, y, key, order) ==
  IF order = "asc" THEN KeyLess(x, y, key) ELSE KeyLess(y, x, key)

RECURSIVE InsertItem(_, _, _, _)
InsertItem(x, sorted, key, order) ==
  IF sorted = <<>> THEN <<x>>
  ELSE IF Before(x, Head(sorted), key, order) THEN <<x>> \o sorted
  ELSE <<Head(sorted)>> \o InsertItem(x, Tail(sorted), key, order)

\* _.orderBy(items, [key], [order]): a stable sort
RECURSIVE OrderBy(_, _, _)
OrderBy(items, key, order) ==
  IF items = <<>> THEN <<>>
  ELSE InsertItem(items[Len(items)],
                  OrderBy(SubSeq(items, 1, Len(items) - 1), key, order), key, order)

\* the useMemo body
FilteredItems(items, filterKeys, query, sortKey, sortOrder) ==
  LET Keep(item) == SomeKey(item, filterKeys, query)
  IN OrderBy(SelectSeq(items, Keep), sortKey, sortOrder)

Searching(items, filterKeys, query, sortKey, sortOrder) ==
  [items |-> items, filterKeys |-> filterKeys, query |-> query,
   sortKey |-> sortKey, sortOrder |-> sortOrder,
   filteredItems |-> FilteredItems(items, filterKeys, query, sortKey, sortOrder)]

SearchIdle == search = Searching(<<>>, <<>>, <<>>, "name", "asc")

\* the hook as mounted, searchQuery left at its default ""
InitSearch ==
  \E items \in ItemLists, filterKeys \in FilterKeyLists,
     sortKey \in {"name", "email"}, sortOrder \in {"asc", "desc"} :
    search = Searching(items, filterKeys, <<>>, sortKey, sortOrder)

\* setQuery(q) and the render that follows
SetQuery(q) ==
  /\ q # search.query
  /\ search' = Searching(search.items, search.filterKeys, q,
                         search.sortKey, search.sortOrder)
  /\ UNCHANGED <<asyncVars, streamVars, aiVars, chatVars, scroll>>

NextSearch == \E q \in Queries : SetQuery(q)

\* no useInfiniteScroll and no useSmartOSearch consumer in use
ViewsIdle == ScrollIdle /\ SearchIdle

InitA == InitAsync /\ StreamIdle /\ AIIdle /\ ViewsIdle

\* one useAsync controller on its own
InitAsyncSolo ==
  /\ cfg \in {f \in [Controllers -> Configs] : f["B"] = DefaultConfig}
  /\ AsyncConstructed

NextAsyncSolo ==
  \/ \E args \in ArgLists : Execute("A", args)
  \/ Retry("A")
  \/ TimerFire("A")
  \/ \E i \in 1..MaxInv : Resolve("A", i)
  \/ \E i \in 1..MaxInv, t \in Thrown : Reject("A", i, t)
  \/ Reset("A")
  \/ Cancel("A")
  \/ Tick

InitSolo == InitAsyncSolo /\ StreamIdle /\ AIIdle /\ ViewsIdle

SpecAsyncSolo == InitSolo /\ [][NextAsyncSolo]_vars

SpecAsync == InitA /\ [][NextAsync]_vars

InitS == InitStream /\ AsyncIdle /\ AIIdle /\ ViewsIdle

SpecStream == InitS /\ [][NextStream]_vars

InitP == InitAI /\ AsyncIdle /\ StreamIdle /\ ViewsIdle

SpecAI == InitP /\ [][NextAI]_vars

InitC == InitChat /\ AsyncIdle /\ StreamIdle /\ ViewsIdle

InitV == InitScroll /\ SearchIdle /\ AsyncIdle /\ StreamIdle /\ AIIdle

SpecScroll == InitV /\ [][NextScroll]_vars

InitQ == InitSearch /\ ScrollIdle /\ AsyncIdle /\ StreamIdle /\ AIIdle

SpecSearch == InitQ /\ [][NextSearch]_vars

SpecChat == InitC /\ [][NextChat]_vars

\* every call of the wrapped operation eventually settles
AsyncSettles ==
  \A c \in Controllers, i \in 1..MaxInv :
    WF_vars(Resolve(c, i) \/ \E t \in Thrown : Reject(c, i, t))

SpecAsyncFair == InitA /\ [][NextAsync]_vars /\ AsyncSettles

\* every fetch settles, every source ends or fails, every abort is noticed
StreamSettles ==
  \A s \in 1..MaxStreamCalls :
    /\ WF_vars(\E o \in FetchOutcomes([method |-> "POST", hasBody |-> TRUE])
                         \cup FetchOutcomes([method |-> "GET", hasBody |-> TRUE]) :
                 Connect(s, o))
    /\ WF_vars(ReadDone(s) \/ ReadFails(s))
    /\ WF_vars(AbortObserved(s))

\* the consumer under fairness: of the chunks only the [DONE] marker is
\* delivered, which is skipped by one parser and makes the other throw;
\* text chunks only extend data and never touch isStreaming
NextStreamFair ==
  \/ StartStream
  \/ \E s \in 1..MaxStreamCalls, o \in FetchOutcomes([method |-> "POST", hasBody |-> TRUE])
                                    \cup FetchOutcomes([method |-> "GET", hasBody |-> TRUE]) :
       Connect(s, o)
  \/ \E s \in 1..MaxStreamCalls : ReadChunk(s, "data: [DONE]")
  \/ \E s \in 1..MaxStreamCalls : ReadDone(s)
  \/ \E s \in 1..MaxStreamCalls : ReadFails(s)
  \/ \E s \in 1..MaxStreamCalls : AbortObserved(s)
  \/ Abort
  \/ StreamReset

SpecStreamFair == InitS /\ [][NextStreamFair]_vars /\ StreamSettles
(***************************************************************************)
(*                       useAIStream: properties                           *)
(***************************************************************************)
StreamSteps == {"connect", "chunk", "done", "fail", "aborted"}

Fired(name) == \E j \in 1..Len(sev.fired) : sev.fired[j][1] = name

\* C8: after abort() called while isStreaming, and until the next
\* startStream (or reset()): error = null, isComplete = false,
\* isStreaming = false, data and the accumulated text keep their value,
\* onComplete and onError are not called.
C8_AbortLeavesState ==
  [][afterAbort' =>
       /\ error' = NULL /\ ~isComplete' /\ ~isStreaming'
       /\ data' = data /\ accumulatedTextRef' = accumulatedTextRef
       /\ ~Fired("onComplete")' /\ ~Fired("onError")']_vars

\* C9: once a later startStream has been called, an earlier stream that is
\* still open is silent: its chunks, its end-of-data and its failure change
\* neither the accumulated text, data, isStreaming, isComplete nor error,
\* and fire no callback.
C9_SupersededStreamSilent ==
  [][\A s \in 1..Len(streams) :
       (s < Len(streams) /\ sev'.s = s /\ sev'.op \in StreamSteps)
       => /\ accumulatedTextRef' = accumulatedTextRef /\ data' = data
          /\ isStreaming' = isStreaming /\ isComplete' = isComplete
          /\ error' = error
          /\ sev'.fired = <<>>]_vars

\* the processed form of a raw chunk under a merged config
Processed(mc, chunk) ==
  IF "parseChunk" \in DOMAIN mc
  THEN ParseChunk(mc["parseChunk"], chunk)
  ELSE [kind |-> "text", text |-> chunk]

RECURSIVE ExpectedText(_, _)
ExpectedText(mc, got) ==
  IF got = <<>> THEN ""
  ELSE LET p == Processed(mc, got[Len(got)])
       IN ExpectedText(mc, SubSeq(got, 1, Len(got) - 1))
            \o (IF p.kind = "text" THEN p.text ELSE "")

ExpectedCall(mc, name, arg) == IF name \in DOMAIN mc THEN <<<<name, arg>>>> ELSE <<>>

\* C10: for a stream no other stream overlaps, every chunk that is not
\* skipped extends the accumulated text and data by its processed form and
\* is passed once to onChunk; at end-of-data the accumulated text and data
\* are the concatenation of the processed chunks in arrival order,
\* isComplete = true, isStreaming = false and onComplete is called once
\* with the whole text.
C10_StreamAccumulates ==
  [][\A s \in 1..Len(streams) :
       (streams[s].solo /\ streams[s].phase = "read" /\ sev'.s = s)
       => LET mc == streams[s].mc IN
          /\ (sev'.op = "chunk") =>
               LET got == streams'[s].got
                   p == Processed(mc, got[Len(got)])
               IN /\ Len(got) = Len(streams[s].got) + 1
                  /\ accumulatedTextRef' = ExpectedText(mc, got)
                  /\ data' = accumulatedTextRef'
                  /\ p.kind = "text" => sev'.fired = ExpectedCall(mc, "onChunk", p.text)
                  /\ p.kind = "null" => sev'.fired = <<>>
                  /\ isStreaming' /\ ~isComplete'
          /\ (sev'.op = "done") =>
               /\ accumulatedTextRef' = ExpectedText(mc, streams[s].got)
               /\ data' = accumulatedTextRef'
               /\ isComplete' /\ ~isStreaming' /\ error' = NULL
               /\ sev'.fired = ExpectedCall(mc, "onComplete", accumulatedTextRef')]_vars

\* the documented SSE stream: "data: a", then the [DONE] marker, then the end
C10_Witness ==
  /\ sev.op = "done" /\ sev.fired = <<<<"onComplete", "a">>>>
  /\ config = ChatConfig /\ runtimeConfig = EmptyObj
  /\ Len(streams) = 1 /\ chunks = 2
  /\ data = "a" /\ accumulatedTextRef = "a" /\ isComplete /\ ~isStreaming
\* C11: a raw chunk for which parseChunk returns null changes neither the
\* accumulated text nor data, is not passed to onChunk (no callback at all),
\* and leaves the stream reading: isStreaming, isComplete and error keep
\* their values and the stream is at its next reader.read().
C11_SkippedChunkChangesNothing ==
  [][\A s \in 1..Len(streams) : \A chunk \in RawChunks :
       (/\ chunks' = chunks + 1 /\ sev'.s = s
        /\ Processed(streams[s].mc, chunk).kind = "null"
        /\ ReadChunk(s, chunk))
       => /\ accumulatedTextRef' = accumulatedTextRef /\ data' = data
          /\ sev'.fired = <<>>
          /\ isStreaming' = isStreaming /\ isComplete' = isComplete
          /\ error' = error
          /\ streams'[s].phase = "read" /\ ~streams'[s].aborted
          /\ streams'[s].got = Append(streams[s].got, chunk)]_vars

\* "data: a" was appended, then the [DONE] marker was skipped
C11_Witness ==
  /\ sev.op = "chunk" /\ sev.fired = <<>>
  /\ sev.s \in 1..Len(streams)
  /\ streams[sev.s].got = <<"data: a", "data: [DONE]">>
  /\ streams[sev.s].phase = "read"
  /\ data = "a" /\ accumulatedTextRef = "a" /\ isStreaming /\ error = NULL
\* C12: a raw chunk on which parseChunk throws is skipped like a null: the
\* accumulated text and data are unchanged, no callback is called (neither
\* onChunk nor onError), error and isStreaming keep their values and the
\* stream is at its next reader.read().
C12_ThrowingParseIsSkipped ==
  [][\A s \in 1..Len(streams) : \A chunk \in RawChunks :
       (/\ chunks' = chunks + 1 /\ sev'.s = s
        /\ Processed(streams[s].mc, chunk).kind = "throw"
        /\ ReadChunk(s, chunk))
       => /\ accumulatedTextRef' = accumulatedTextRef /\ data' = data
          /\ sev'.fired = <<>>
          /\ error' = error /\ isStreaming' = isStreaming
          /\ streams'[s].phase = "read"]_vars
ReadFailure == "TypeError: network error"

\* the failures open to a stream that is not aborted: at the fetch (fetch
\* rejects, the status is not ok, the body is not readable) or at a read
FailuresAt(st) ==
  IF st.phase = "fetch" THEN FetchOutcomes(st.req) \ {"ok"} ELSE {ReadFailure}

C14_StreamingXorComplete == ~(isStreaming /\ isComplete)

\* one stream has completed while an overlapping one is still open
C14_Witness ==
  /\ isComplete /\ ~isStreaming
  /\ sev.op = "done"
  /\ \E s \in 1..Len(streams) : Open(s) /\ s # sev.s
(***************************************************************************)
(*                    useAsync: properties, continued                      *)
(***************************************************************************)
\* C15: retry() as the first call on a controller does nothing: the wrapped
\* operation is not invoked, the state stays the initial one and the
\* promise resolves to undefined.
C15_FirstRetryIsNoOp ==
  [][\A c \in Controllers :
       (Retry(c) /\ calls[c] = 0)
       => /\ invs'[c] = invs[c]
          /\ state'[c] = InitialState
          /\ ev'.fired = <<>>
          /\ ev'.retKind = "resolve" /\ ev'.retVal = UNDEFINED]_vars
\* C16: cancel() sets loading = false and leaves data, error and success as
\* they were; the completion of an invocation that was in flight when
\* cancel() was called changes neither the state nor the cache, calls no
\* callback and schedules no retry.
C16_CancelStopsInFlight ==
  [][\A c \in Controllers :
       /\ Cancel(c) => state'[c] = [state[c] EXCEPT !.loading = FALSE]
       /\ \A i \in 1..Len(invs[c]) :
            (/\ invs[c][i].status = "pending"
             /\ invs'[c][i].status # "pending"
             /\ "cancel" \in invs[c][i].stopped)
            => /\ state'[c] = state[c]
               /\ cache' = cache
               /\ ev'.fired = <<>>
               /\ retryCountRef'[c] = retryCountRef[c]
               /\ timers'[c] = timers[c]]_vars

\* C17: reset() sets the state to the initial one and the retry counter to
\* 0 and leaves the cache alone; the completion of an invocation that was in
\* flight at the reset changes neither the state nor the cache and calls no
\* callback.
C17_ResetStopsInFlight ==
  [][\A c \in Controllers :
       /\ Reset(c) => /\ state'[c] = InitialState
                      /\ retryCountRef'[c] = 0
                      /\ cache' = cache
       /\ \A i \in 1..Len(invs[c]) :
            (/\ invs[c][i].status = "pending"
             /\ invs'[c][i].status # "pending"
             /\ "reset" \in invs[c][i].stopped)
            => /\ state'[c] = state[c]
               /\ cache' = cache
               /\ ev'.fired = <<>>]_vars
\* C18: retry() sets the retry counter to 0 and does what execute does with
\* the argument list of the last execute call on the controller, a call
\* served from the cache included: when it invokes the wrapped operation, it
\* is with that argument list.
C18_RetryUsesLastExecuteArgs ==
  [][\A c \in Controllers :
       (Retry(c) /\ lastExecuteArgs[c] # <<>>)
       => /\ retryCountRef'[c] = 0
          /\ Len(invs'[c]) > Len(invs[c])
             => invs'[c][Len(invs'[c])].args = lastExecuteArgs[c]]_vars
\* C19: whenever a controller shows success, its retry counter is 0.
C19_SuccessMeansCounterZero ==
  \A c \in Controllers : state[c].success => retryCountRef[c] = 0
\* C20: the retry counter stays within 0..retryCount; every automatic retry
\* that is scheduled raises it by one, and it goes down only to 0, on a
\* success, reset() or retry(): so between two resets of the counter at
\* most retryCount retries are scheduled, overlapping invocations or not.
C20_CounterBounded ==
  [][\A c \in Controllers :
       /\ retryCountRef[c] \in 0..cfg[c].retryCount
       /\ retryCountRef'[c] \in 0..cfg[c].retryCount
       /\ Len(timers'[c]) > Len(timers[c])
          => /\ Len(timers'[c]) = Len(timers[c]) + 1
             /\ retryCountRef'[c] = retryCountRef[c] + 1
       /\ retryCountRef'[c] > retryCountRef[c]
          => /\ retryCountRef'[c] = retryCountRef[c] + 1
             /\ Len(timers'[c]) = Len(timers[c]) + 1
       /\ retryCountRef'[c] < retryCountRef[c]
          => /\ retryCountRef'[c] = 0
             /\ \/ ev'.op = "reset"
                \/ ev'.op = "settle" /\ ev'.retKind = "resolve" /\ state'[c].success
                \/ Retry(c)]_vars

\* two overlapping invocations have both failed and used up retryCount = 2
C20_Witness ==
  \E c \in Controllers :
    /\ cfg[c].retryCount = 2 /\ retryCountRef[c] = 2
    /\ Len(invs[c]) = 2 /\ invs[c][2].overlap
    /\ invs[c][1].status = "fail" /\ invs[c][2].status = "fail"
    /\ Len(timers[c]) = 2
\* a loading controller eventually stops loading
C21_LoadingEnds ==
  \A c \in Controllers : state[c].loading ~> ~state[c].loading

\* right after the failure of the live invocation with no retry scheduled
\* or pending, the state shows the error and the next step leaves it alone
\* unless it is a call by the component
C21_TerminalFailureStays ==
  [][\A c \in Controllers :
       (/\ ev.op = "settle" /\ ev.c = c /\ ev.retKind = "reject"
        /\ ev.inv = Len(invs[c]) /\ ~invs[c][ev.inv].revoked
        /\ timers[c] = <<>>
        /\ calls'[c] = calls[c])
       => /\ state[c].error # NULL /\ ~state[c].loading
          /\ state'[c] = state[c]]_vars

\* C21: if every call of the wrapped operation settles, loading = true is
\* always followed by loading = false; and once the live invocation has
\* failed with no retry left, the state stays {error set, loading = false}
\* until the component calls the controller.
C21_LoadingEndsAndFailureStays == C21_LoadingEnds /\ C21_TerminalFailureStays
(***************************************************************************)
(*                  useAIStream: properties, continued                     *)
(***************************************************************************)
\* C22: if every fetch settles and every source ends or fails, isStreaming =
\* true is always followed by isStreaming = false, whatever startStream,
\* abort and reset calls are made.
C22_StreamingEnds == isStreaming ~> ~isStreaming

\* an overlapped stream has ended while the consumer was shown streaming
C22_Witness ==
  /\ ~isStreaming /\ sev.op \in {"done", "fail"}
  /\ Len(streams) >= 2 /\ sev.s = Len(streams)
  /\ \E s \in 1..Len(streams) : Open(s)

\* what a chunk can add to the text: a parsed piece or, without a parser,
\* the decoded chunk itself
ChunkTexts == {"a", "b"} \cup RawChunks

Extends(old, new) == new = old \/ \E piece \in ChunkTexts : new = old \o piece

\* C23: startStream and reset() set data and the accumulated text to "";
\* every other step leaves each of them as it was or appends a suffix to it.
C23_AppendOnly ==
  [][IF sev'.op \in {"start", "reset"}
     THEN data' = "" /\ accumulatedTextRef' = ""
     ELSE Extends(data, data') /\ Extends(accumulatedTextRef, accumulatedTextRef')]_vars

\* a second piece has been appended to the first
C23_Witness ==
  /\ sev.op = "chunk" /\ sev.fired # <<>>
  /\ data \in {"ab", "ba"} /\ accumulatedTextRef = data

\* an override that reroutes the call: another url and method, other
\* callbacks, a header and a body key the base has and one each it lacks
RouteOverride ==
  "url" :> "/api/alt" @@ "method" :> "GET"
    @@ "headers" :> ("Authorization" :> "Bearer L" @@ "X-Trace" :> "1")
    @@ "body" :> ("model" :> "n" @@ "stream" :> "true")
    @@ "onChunk" :> "onChunk2" @@ "onError" :> "onError2"

MergeSetups ==
  {BareConfig, ChatConfig, FeedConfig} \X {EmptyObj, PromptOverride, RouteOverride}

InitMerge ==
  /\ \E su \in MergeSetups : config = su[1] /\ runtimeConfig = su[2]
  /\ StreamConstructed
  /\ AsyncIdle
  /\ AIIdle
  /\ ViewsIdle

\* startStream calls up to the settling of fetch, and the calls that stop them
NextMerge ==
  \/ StartStream
  \/ \E s \in 1..MaxStreamCalls, o \in FetchOutcomes([method |-> "POST", hasBody |-> TRUE])
                                    \cup FetchOutcomes([method |-> "GET", hasBody |-> TRUE]) :
       Connect(s, o)
  \/ \E s \in 1..MaxStreamCalls : AbortObserved(s)
  \/ Abort
  \/ StreamReset

SpecMerge == InitMerge /\ [][NextMerge]_vars

\* b laid over a, key by key
Overlay(a, b) ==
  [k \in DOMAIN a \cup DOMAIN b |-> IF k \in DOMAIN b THEN b[k] ELSE a[k]]

Given(k) == k \in DOMAIN runtimeConfig \/ k \in DOMAIN config

Chosen(k) == IF k \in DOMAIN runtimeConfig THEN runtimeConfig[k] ELSE config[k]

\* C24: the request of startStream(override) has the base headers and body
\* overlaid key by key by the override's; url, method, parseChunk and the
\* callbacks are the override's when it gives them, else the base's; the
\* method is POST when neither gives one.
C24_RequestIsMerged ==
  \A s \in 1..Len(streams) :
    Open(s) =>
      /\ streams[s].req.headers = Overlay(Field(config, "headers"), Field(runtimeConfig, "headers"))
      /\ streams[s].req.body
           = Stringify(Overlay(Field(config, "body"), Field(runtimeConfig, "body")))
      /\ streams[s].req.url = Chosen("url")
      /\ streams[s].req.method = (IF Given("method") THEN Chosen("method") ELSE "POST")
      /\ \A k \in {"parseChunk", "onChunk", "onComplete", "onError"} :
           /\ k \in DOMAIN streams[s].mc <=> Given(k)
           /\ Given(k) => streams[s].mc[k] = Chosen(k)

\* a request is out whose override replaced one base header and body key and
\* kept another
C24_Witness ==
  /\ Open(1)
  /\ \E k \in DOMAIN Field(config, "headers") \cap DOMAIN Field(runtimeConfig, "headers") :
       config["headers"][k] # runtimeConfig["headers"][k]
  /\ DOMAIN Field(config, "headers") \ DOMAIN Field(runtimeConfig, "headers") # {}
  /\ \E k \in DOMAIN Field(config, "body") \cap DOMAIN Field(runtimeConfig, "body") :
       config["body"][k] # runtimeConfig["body"][k]
  /\ DOMAIN Field(config, "body") \ DOMAIN Field(runtimeConfig, "body") # {}

(***************************************************************************)
(* useAI and useAIChat: properties                                         *)
(***************************************************************************)
\* the merged configuration of every sendPrompt call of a behaviour
MergedAIConfig == Overlay(aiConfig, aiRuntimeConfig)

\* custom provider without apiUrl, built-in provider without apiKey
Misconfigured ==
  LET provider == IF "provider" \in DOMAIN MergedAIConfig
                  THEN MergedAIConfig["provider"] ELSE "groq"
  IN \/ provider = "custom" /\ "apiUrl" \notin DOMAIN MergedAIConfig
     \/ provider \in BuiltIn /\ "apiKey" \notin DOMAIN MergedAIConfig

\* C25: a sendPrompt call that fails (misconfiguration, network error,
\* non-ok status, unparsable body) resolves with the failure in error, passed
\* once to onError and to no other callback, response as it was and loading
\* false; a misconfigured call fails without a network request.
C25_FailureIsContained ==
  [][aiEv'.op \in {"send", "settle"} =>
       /\ aiEv'.op = "send" /\ Misconfigured => aiEv'.failed /\ requests' = requests
       /\ aiEv'.op = "settle" /\ prompts[aiEv'.p].phase = "fetch" => aiEv'.failed
       /\ /\ aiEv'.op = "settle" /\ prompts[aiEv'.p].phase = "json"
          /\ ~prompts[aiEv'.p].reply.ok \/ ~prompts[aiEv'.p].reply.body.json
          => aiEv'.failed
       /\ aiEv'.failed =>
            /\ aiError' # NULL /\ aiError' = aiEv'.err
            /\ aiEv'.fired = (IF "onError" \in DOMAIN MergedAIConfig
                              THEN <<<<MergedAIConfig["onError"], aiError'>>>> ELSE <<>>)
            /\ response' = response
            /\ ~aiLoading'
            /\ prompts'[aiEv'.p].phase = "closed"]_vars

\* a call has failed after an answer was shown: the answer is still there
C25_Witness ==
  /\ aiEv.op = "settle" /\ aiEv.failed /\ aiEv.fired # <<>>
  /\ response = "hi" /\ aiError # NULL /\ ~aiLoading

\* C26: messages never holds more than maxHistory messages.
C26_HistoryBounded == Len(messages) <= MaxHistoryOf(aiConfig)

C28_CacheHitKeepsToken ==
  [][(/\ ev'.op = "execute" /\ ev'.inv = 0
      /\ HasPending(invs[ev'.c]))
     => /\ abortControllerRef'[ev'.c] = abortControllerRef[ev'.c]
        /\ abortedSignals'[ev'.c] = abortedSignals[ev'.c]]_vars

\* C29: an execute is served from the cache exactly when the controller has
\* a cacheKey and a staleTime > 0 and the entry of the key is younger than
\* staleTime; every applied success of a controller with a cacheKey writes
\* the entry, staleTime 0 included.
C29_CacheWindow ==
  [][ev'.op \in {"execute", "settle"} =>
       LET c == ev'.c
           k == cfg[c].cacheKey
       IN /\ ev'.op = "execute" =>
               (ev'.inv = 0 <=>
                  /\ k # NULL
                  /\ cfg[c].staleTime > 0
                  /\ cache[k].has
                  /\ now - cache[k].timestamp < cfg[c].staleTime)
          /\ (/\ ev'.op = "settle" /\ ev'.fired # <<>> /\ ev'.retKind = "resolve"
              /\ k # NULL)
             => cache'[k] = [has |-> TRUE, data |-> ev'.retVal, timestamp |-> now]]_vars

\* an entry exactly staleTime old was not served: the operation was invoked
C29_Witness ==
  \E c \in Controllers :
    /\ ev.op = "execute" /\ ev.c = c /\ ev.inv # 0
    /\ cfg[c].cacheKey # NULL /\ cfg[c].staleTime > 0
    /\ cache[cfg[c].cacheKey].has
    /\ now - cache[cfg[c].cacheKey].timestamp = cfg[c].staleTime
(***************************************************************************)
(*                      useAIStream: after reset()                         *)
(***************************************************************************)
\* C30: reset() leaves data "", error null, isComplete and isStreaming
\* false, and the step that follows it, unless it is a startStream, changes
\* none of that and calls no callback.
C30_ResetIsFinal ==
  [][(sev'.op = "reset" \/ (sev.op = "reset" /\ sev'.op # "start"))
     => /\ data' = "" /\ accumulatedTextRef' = ""
        /\ error' = NULL
        /\ ~isComplete' /\ ~isStreaming'
        /\ sev'.fired = <<>>]_vars
(***************************************************************************)
(*                     useAIStream: the abort handle                       *)
(***************************************************************************)
\* C31: while the most recently started stream is active and not aborted,
\* the ref holds its controller.
C31_HandleIsNewestStream ==
  LET n == Len(streams)
  IN (n > 0 /\ Open(n) /\ ~streams[n].aborted) => streamAbortRef = n
(***************************************************************************)
(*                    useAsync: timers and callbacks                       *)
(***************************************************************************)
\* C32: right after reset() or cancel() on a controller with nothing in
\* flight, a step that is not a call by a component invokes nothing on it
\* and leaves its state alone, whatever retry had been scheduled.
C32_NoRetryAfterStop ==
  [][(/\ ev.op \in {"reset", "cancel"}
      /\ calls' = calls
      /\ ~HasPending(invs[ev.c]))
     => /\ Len(invs'[ev.c]) = Len(invs[ev.c])
        /\ state'[ev.c] = state[ev.c]]_vars

\* C33: a retry timer that fires while an invocation the component started
\* after the failure is in flight invokes nothing and aborts nothing.
C33_TimerSparesCallerInvocation ==
  [][\A c \in Controllers :
       (/\ timers[c] # <<>> /\ timers'[c] = Tail(timers[c])
        /\ Len(invs[c]) = 2
        /\ invs[c][1].status = "fail"
        /\ invs[c][2].status = "pending" /\ invs[c][2].src = "execute"
        /\ ~invs[c][2].overlap)
       => /\ Len(invs'[c]) = Len(invs[c])
          /\ abortedSignals'[c] = abortedSignals[c]]_vars

\* the wrapped operation resolves and the onSuccess callback throws t: the
\* success path up to the callback, then the catch block
ResolveOnSuccessThrows(c, i, t) ==
  /\ UNCHANGED nonAsyncVars
  /\ i \in 1..Len(invs[c])
  /\ invs[c][i].status = "pending"
  /\ ~IsAborted(c)
  /\ LET result == AsyncFn(invs[c][i].args)
         errorObj == ToErrorObj(t)
     IN /\ invs' = [invs EXCEPT ![c][i].status = "ok", ![c][i].result = result]
        /\ cache' = IF cfg[c].cacheKey # NULL
                    THEN [cache EXCEPT ![cfg[c].cacheKey] =
                            [has |-> TRUE, data |-> result, timestamp |-> now]]
                    ELSE cache
        /\ state' = [state EXCEPT ![c] = ErrorState(SuccessState(result), errorObj)]
        /\ IF ShouldRetry(c)
           THEN /\ retryCountRef' = [retryCountRef EXCEPT ![c] = @ + 1]
                /\ timers' = [timers EXCEPT ![c] = Append(@, invs[c][i].args)]
           ELSE UNCHANGED <<retryCountRef, timers>>
        /\ ev' = Ev("settle", c, i,
                    <<<<"onSuccess", result>>, <<"onError", errorObj>>>>,
                    "reject", errorObj)
  /\ UNCHANGED <<cfg, abortControllerRef, abortedSignals, lastArgsRef, now, calls,
                 lastExecuteArgs>>

\* one controller whose onSuccess callback may throw
NextAsyncCallbacks ==
  \/ NextAsyncSolo
  \/ \E i \in 1..MaxInv, t \in Thrown : ResolveOnSuccessThrows("A", i, t)

SpecAsyncCallbacks == InitSolo /\ [][NextAsyncCallbacks]_vars

\* C34: when the wrapped operation has succeeded and onSuccess was called,
\* the state is the success with the result, onError is not called, the
\* retry counter does not grow and no retry is scheduled.
C34_OnSuccessThrowIsNotAFailure ==
  [][(/\ ev'.op = "settle" /\ ev'.fired # <<>>
      /\ ev'.fired[1][1] = "onSuccess")
     => LET c == ev'.c
        IN /\ state'[c] = [data |-> ev'.fired[1][2], loading |-> FALSE,
                           error |-> NULL, success |-> TRUE]
           /\ Len(ev'.fired) = 1
           /\ retryCountRef'[c] <= retryCountRef[c]
           /\ timers'[c] = timers[c]]_vars
(***************************************************************************)
(*                 useAIStream: the payload and the flags                  *)
(***************************************************************************)
\* C35: a request whose base configuration and override both lack a body
\* carries no body.
C35_NoBodyUnlessConfigured ==
  \A s \in 1..Len(streams) :
    (Open(s) /\ "body" \notin DOMAIN config /\ "body" \notin DOMAIN runtimeConfig)
      => ~streams[s].req.hasBody

\* C36: a consumer shown as completed shows no error.
C36_CompleteMeansNoError == isComplete => error = NULL
(***************************************************************************)
(* useAI and useAIChat: properties, continued                              *)
(***************************************************************************)
\* C37: loading is true as long as a sendPrompt call is in flight.
C37_LoadingWhileInFlight ==
  (\E p \in 1..Len(prompts) : prompts[p].phase # "closed") => aiLoading

\* one event handler calls sendMessage twice: both calls run against the
\* messages of the render the handler belongs to
SendMessageTwice(first, second) ==
  /\ Len(prompts) + 2 <= MaxPrompts
  /\ LET mc == Spread(aiConfig, aiRuntimeConfig)
         call(message) == [mc |-> mc, prompt |-> FullPrompt(messages, message),
                           phase |-> "fetch", reply |-> NoReply]
     IN /\ ConfigError(mc) = NULL
        /\ prompts' = prompts \o <<call(first), call(second)>>
  /\ messages' = messages \o <<[role |-> "user", content |-> first],
                               [role |-> "user", content |-> second]>>
  /\ aiError' = NULL
  /\ aiLoading' = TRUE
  /\ requests' = requests + 2
  /\ aiEv' = AIEv("send", Len(prompts) + 2, FALSE, NULL, <<>>)
  /\ UNCHANGED <<aiConfig, aiRuntimeConfig, response>>
  /\ UNCHANGED nonAIVars

NextChatBurst ==
  \/ NextChat
  \/ \E first, second \in UserTexts : SendMessageTwice(first, second)

SpecChatBurst == InitC /\ [][NextChatBurst]_vars

\* the conversation as the claim renders it
RECURSIVE Conversation(_)
Conversation(history) ==
  IF history = <<>> THEN ""
  ELSE (IF Head(history).role = "system" THEN ""
        ELSE (IF Head(history).role = "user" THEN "User: " ELSE "Assistant: ")
               \o Head(history).content \o "\n\n")
       \o Conversation(Tail(history))

\* C38: the prompt of a sendMessage(m) call made on a history with at least
\* one non-system message is that history, rendered in order, followed by
\* "User: m" -- the history including what an earlier sendMessage call of the
\* same handler added.
C38_PromptHasWholeHistory ==
  [][\A k \in 1..2 :
       (/\ Len(prompts') >= Len(prompts) + k
        /\ SelectSeq(SubSeq(messages', 1, Len(messages) + k - 1), IsChat) # <<>>)
       => prompts'[Len(prompts) + k].prompt
            = Conversation(SubSeq(messages', 1, Len(messages) + k - 1))
                \o "User: " \o messages'[Len(messages) + k].content]_vars
(***************************************************************************)
(* useInfiniteScroll and useSmartOSearch: properties                       *)
(***************************************************************************)
\* C39: page is at least 1; a step that changes page calls fetchData once,
\* with the new page, and a step that leaves page alone calls nothing.
C39_OneFetchPerPage ==
  [][/\ scroll'.page >= 1
     /\ scroll'.page # scroll.page
          => scroll'.fetched = Append(scroll.fetched, scroll'.page)
     /\ scroll'.page = scroll.page => scroll'.fetched = scroll.fetched]_vars

\* the number of times item occurs in a list
Occurrences(item, list) == Cardinality({i \in 1..Len(list) : list[i] = item})

\* C40: with an empty query filteredItems holds every item of items, as
\* often as items does, whatever filterKeys is.
C40_EmptyQueryKeepsAll ==
  search.query = <<>> =>
    \A i \in 1..Len(search.items) :
      Occurrences(search.items[i], search.filteredItems)
        = Occurrences(search.items[i], search.items)
====
